---- MODULE Spec2Model ----
(***************************************************************************)
(* Arxiv Multi-View Reviewer (src/app.py): the memoized arXiv search       *)
(* (ArxivFetcher.search_papers under st.cache_data(ttl=3600)), the         *)
(* persona review generator (GeminiProcessor.generate_review) and the      *)
(* Streamlit script main().                                                *)
(*                                                                         *)
(* Time is in seconds.  A publication instant is a number of seconds; the  *)
(* day it falls on is what strftime("%Y-%m-%d") keeps of it.  Sampling     *)
(* temperatures are in tenths (0.0 is 0, 0.7 is 7).                        *)
(***************************************************************************)
EXTENDS Integers, Sequences, FiniteSets, TLC

VARIABLES
    now,        \* wall clock read by the memo table
    ticks,      \* how many times the clock has advanced
    corpus,     \* the search provider's index, in the provider's own order
    cache,      \* the memo table of search_papers: key -> [created, value]
    opened,     \* per (query, limit): the latest provider fetch made for it
    last,       \* the search_papers call made by the latest step, if any
    genLog,     \* one entry per direct call of generate_review
    api_key,    \* sidebar widget "Gemini API Key"
    query,      \* sidebar widget "Keyword"
    max_results,\* sidebar widget "Max Papers"
    button,     \* value of st.button in the latest script run
    pc,         \* where the running script is: idle, search or review
    papers,     \* main's local: the list search_papers returned
    idx,        \* main's loop index over papers (1-based)
    col,        \* which of the two columns is being filled
    screen,     \* what the page shows
    trace       \* the collaborator calls of the latest script run, in order

vars == <<now, ticks, corpus, cache, opened, last, genLog, api_key, query,
          max_results, button, pc, papers, idx, col, screen, trace>>

mainVars == <<api_key, query, max_results, button, pc, papers, idx, col,
              screen, trace>>

---------------------------------------------------------------------------
(* Bounds of the model *)

MaxTicks   == 2     \* clock advances
MaxLimit   == 2     \* largest "Max Papers" value tried
MaxCorpus  == 3     \* papers the provider ever indexes
MaxReviews == 2     \* direct generate_review calls recorded in genLog

(* Program constants *)

TTL        == 3600  \* st.cache_data(ttl=3600)
DaySeconds == 86400 \* strftime("%Y-%m-%d") keeps the day of an instant

DefaultQuery == "LLM Agents"
Queries  == {DefaultQuery, "RAG"}
Fetchers == {"fetcher1", "fetcher2"}
Limits   == 1..MaxLimit
Step     == TTL \div 2
StartTime == 2 * DaySeconds - TTL

---------------------------------------------------------------------------
(* The search provider (arxiv.Client), as far as the program observes it *)

Title(p)   == IF p = 1 THEN "Paper one" ELSE IF p = 2 THEN "Paper two" ELSE "Paper three"
Summary(p) == IF p = 1 THEN "abstract one" ELSE IF p = 2 THEN "abstract two" ELSE "abstract three"
EntryId(p) == IF p = 1 THEN "arxiv/1" ELSE IF p = 2 THEN "arxiv/2" ELSE "arxiv/3"
AuthorNames(p) == IF p = 1 THEN <<"A. Ito">>
                  ELSE IF p = 2 THEN <<"B. Sato", "C. Mori">>
                  ELSE <<>>
Topics(p)  == IF p = 2 THEN {"LLM Agents", "RAG"} ELSE {"LLM Agents"}

Result(p, t) == [title |-> Title(p), summary |-> Summary(p), entry_id |-> EntryId(p),
                 published |-> t, authors |-> AuthorNames(p)]

InitialCorpus == << Result(1, DaySeconds \div 2), Result(2, DaySeconds + TTL) >>

\* Submission instants: one on day 0, an early and a late one on day 1.
Instants == {DaySeconds \div 2, DaySeconds + TTL, 2 * DaySeconds - TTL}

\* Every index of at most MaxCorpus papers, paper p at place p.
Corpora ==
    UNION {{[p \in 1..n |-> Result(p, t[p])] : t \in [1..n -> Instants]} : n \in 0..MaxCorpus}

RECURSIVE Matching(_, _)
Matching(q, seq) ==
    IF seq = <<>> THEN <<>>
    ELSE IF \E p \in 1..MaxCorpus : Head(seq).entry_id = EntryId(p) /\ q \in Topics(p)
         THEN <<Head(seq)>> \o Matching(q, Tail(seq))
         ELSE Matching(q, Tail(seq))

RECURSIVE InsertDesc(_, _)
InsertDesc(r, seq) ==
    IF seq = <<>> THEN <<r>>
    ELSE IF r.published > Head(seq).published THEN <<r>> \o seq
         ELSE <<Head(seq)>> \o InsertDesc(r, Tail(seq))

RECURSIVE SortDesc(_)
SortDesc(seq) ==
    IF seq = <<>> THEN <<>>
    ELSE InsertDesc(Head(seq), SortDesc(Tail(seq)))

Take(seq, n) == SubSeq(seq, 1, IF n < Len(seq) THEN n ELSE Len(seq))

\* What the provider yields, error aside, for a search request.
Ordered(search) ==
    LET hits == Matching(search.query, corpus)
    IN  Take(IF search.sort_by = "SubmittedDate" THEN SortDesc(hits) ELSE hits,
             search.max_results)

\* A transport or provider error is an input of each request: with fault k
\* the provider raises on its first request when k = 0, and otherwise when
\* asked for a record beyond the first k ones; k = MaxLimit is a healthy
\* provider.
Faults == 0..MaxLimit

Raises(search, k) == k = 0 \/ k < Len(Ordered(search))

\* The records the provider yields before it raises or finishes.
Yielded(search, k) ==
    LET all == Ordered(search)
    IN  IF k = 0 \/ k < Len(all) THEN Take(all, k) ELSE all

---------------------------------------------------------------------------
(* ArxivFetcher.search_papers *)

SearchRelevance(q, lim) == [query |-> q, max_results |-> lim, sort_by |-> "Relevance"]
Search(q, lim) == [query |-> q, max_results |-> lim, sort_by |-> "SubmittedDate"]

RECURSIVE Join(_, _)
Join(sep, names) ==
    IF names = <<>> THEN ""
    ELSE IF Len(names) = 1 THEN names[1]
         ELSE names[1] \o sep \o Join(sep, Tail(names))

Strftime(t) == t \div DaySeconds

Record(result) == [title     |-> result.title,
                   summary   |-> result.summary,
                   url       |-> result.entry_id,
                   published |-> Strftime(result.published),
                   authors   |-> Join(", ", result.authors)]

\* The for loop: the records appended so far when it ends or is left by an
\* exception.
Loop(search, k) ==
    LET got == Yielded(search, k)
    IN  [papers |-> [i \in 1..Len(got) |-> Record(got[i])],
         exc    |-> Raises(search, k)]

OnSearchErrorPartial(l) == [ret |-> l.papers, raised |-> FALSE, shown |-> TRUE]
OnSearchErrorRaise(l) == [ret |-> <<>>, raised |-> TRUE, shown |-> FALSE]
OnSearchError(l) == [ret |-> <<>>, raised |-> FALSE, shown |-> TRUE]

search_body(q, lim, k) ==
    LET l == Loop(Search(q, lim), k)
    IN  IF l.exc THEN OnSearchError(l)
        ELSE [ret |-> l.papers, raised |-> FALSE, shown |-> FALSE]

(* st.cache_data(ttl=3600) around it *)

CacheKeyWithSelf(f, q, lim) == <<f, q, lim>>
CacheKey(f, q, lim) == <<q, lim>>

Fresh(e) == now < e.created + TTL

Cached(k) == k \in DOMAIN cache /\ Fresh(cache[k])

StoreUnlessEmpty(k, out) ==
    IF out.raised \/ out.ret = <<>> THEN cache
    ELSE (k :> [created |-> now, value |-> out.ret]) @@ cache
Store(k, out) ==
    IF out.raised THEN cache
    ELSE (k :> [created |-> now, value |-> out.ret]) @@ cache

TouchOnHit(k) == (k :> [created |-> now, value |-> cache[k].value]) @@ cache
Touch(k) == cache

\* One call of the decorated method: its outcome, the memo table after it
\* and what the provider saw of it.
search_papers(f, q, lim, k) ==
    LET key == CacheKey(f, q, lim)
        out == search_body(q, lim, k)
    IN  IF Cached(key)
        THEN [out       |-> [ret |-> cache[key].value, raised |-> FALSE, shown |-> FALSE],
              cache     |-> Touch(key),
              requested |-> FALSE,
              yielded   |-> <<>>,
              failed    |-> FALSE]
        ELSE [out       |-> out,
              cache     |-> Store(key, out),
              requested |-> TRUE,
              yielded   |-> Yielded(Search(q, lim), k),
              failed    |-> Raises(Search(q, lim), k)]

NoCall == [called |-> FALSE]

CallRecord(f, q, lim, k, c) ==
    [called |-> TRUE, fetcher |-> f, query |-> q, limit |-> lim, at |-> now,
     requested |-> c.requested, yielded |-> c.yielded,
     failed |-> c.failed, ret |-> c.out.ret, raised |-> c.out.raised,
     shown |-> c.out.shown,
     renewed |-> c.requested /\ <<q, lim>> \in DOMAIN opened]

\* What the provider saw of the fetch a call made for its (query, limit).
Fetch(f, c) ==
    [at |-> now, by |-> f, failed |-> c.failed, ret |-> c.out.ret]

---------------------------------------------------------------------------
(* GeminiProcessor.generate_review *)

Personas == {"expert", "beginner"}
Texts    == {Summary(p) : p \in 1..MaxCorpus}

\* What the generative-text provider does with one request: it answers, or
\* the request (or reading response.text) raises with a message.
GenOutcomes == {[ok |-> TRUE,  text |-> "a review"],
                [ok |-> FALSE, text |-> ""],
                [ok |-> FALSE, text |-> "429 quota exceeded"]}

Prompts == [expert |-> "expert template", beginner |-> "beginner template"]

TemperatureFlipped(persona) == IF persona = "expert" THEN 7 ELSE 0
Temperature(persona) == IF persona = "expert" THEN 0 ELSE 7

FullPrompt(text, persona) == Prompts[persona] \o "\n\nTarget Abstract:\n" \o text

ErrorMarker == "Error generation review: "

OnGenerateErrorBare(e) == [ret |-> e, raised |-> FALSE]
OnGenerateError(e) == [ret |-> ErrorMarker \o e, raised |-> FALSE]

\* One call: prompts[persona] raises KeyError, before any request, for a
\* persona that is no key of the table.
generate_review(text, persona, outcome) ==
    IF persona \notin DOMAIN Prompts
    THEN [text |-> text, persona |-> persona, requested |-> FALSE,
          temperature |-> Temperature(persona), prompt |-> "",
          failed |-> FALSE, ret |-> "", raised |-> TRUE]
    ELSE LET r == IF outcome.ok THEN [ret |-> outcome.text, raised |-> FALSE]
                  ELSE OnGenerateError(outcome.text)
         IN  [text |-> text, persona |-> persona, requested |-> TRUE,
              temperature |-> Temperature(persona),
              prompt |-> FullPrompt(text, persona),
              failed |-> ~outcome.ok, ret |-> r.ret, raised |-> r.raised]

---------------------------------------------------------------------------
(* Initial state: the app has just been opened *)

Init ==
    /\ now = StartTime
    /\ ticks = 0
    /\ corpus = InitialCorpus
    /\ cache = <<>>
    /\ opened = <<>>
    /\ last = NoCall
    /\ genLog = <<>>
    /\ api_key = ""
    /\ query = "LLM Agents"
    /\ max_results = MaxLimit
    /\ button = FALSE
    /\ pc = "idle"
    /\ papers = <<>>
    /\ idx = 0
    /\ col = 0
    /\ screen = "instruction"
    /\ trace = <<>>

---------------------------------------------------------------------------
(* The environment *)

Advance ==
    /\ ticks < MaxTicks
    /\ now' = now + Step
    /\ ticks' = ticks + 1
    /\ last' = NoCall
    /\ UNCHANGED <<corpus, cache, opened, genLog>>
    /\ UNCHANGED mainVars

---------------------------------------------------------------------------
(* Direct calls of the two methods *)

SearchCall(f, q, lim, k) ==
    /\ LET c == search_papers(f, q, lim, k)
       IN  /\ cache' = c.cache
           /\ last' = CallRecord(f, q, lim, k, c)
           /\ opened' = IF c.requested /\ ~c.out.raised
                         THEN (<<q, lim>> :> Fetch(f, c)) @@ opened
                         ELSE opened
    /\ UNCHANGED <<now, ticks, corpus, genLog>>
    /\ UNCHANGED mainVars

GenerateCall(text, persona, outcome) ==
    /\ Len(genLog) < MaxReviews
    /\ genLog' = Append(genLog, generate_review(text, persona, outcome))
    /\ UNCHANGED <<now, ticks, corpus, cache, opened, last>>
    /\ UNCHANGED mainVars

\* The first call made after the app has started: the memo table is empty.
FirstSearch(f, q, lim, k) ==
    /\ cache = <<>>
    /\ SearchCall(f, q, lim, k)

---------------------------------------------------------------------------
(* main(): one script run per user action *)

Credentials == {"", "key"}

CredentialMissingNever(k) == FALSE
CredentialMissing(k) == k = ""

ReviewPersonasSwapped == <<"beginner", "expert">>
ReviewPersonas == <<"expert", "beginner">>

\* A widget changed: the script runs from the top with the button not pressed.
Rerun(key) ==
    /\ button' = FALSE
    /\ pc' = "idle"
    /\ papers' = <<>>
    /\ idx' = 0
    /\ col' = 0
    /\ trace' = <<>>
    /\ screen' = IF CredentialMissing(key) THEN "instruction" ELSE "ready"
    /\ UNCHANGED <<now, ticks, corpus, cache, opened, last, genLog>>

SetCredential(k) ==
    /\ pc = "idle"
    /\ k # api_key
    /\ api_key' = k
    /\ UNCHANGED <<query, max_results>>
    /\ Rerun(k)

SetKeyword(q) ==
    /\ pc = "idle"
    /\ q # query
    /\ query' = q
    /\ UNCHANGED <<api_key, max_results>>
    /\ Rerun(api_key)

SetMaxPapers(n) ==
    /\ pc = "idle"
    /\ n # max_results
    /\ max_results' = n
    /\ UNCHANGED <<api_key, query>>
    /\ Rerun(api_key)

\* The search button is pressed: the script runs from the top with it pressed.
ClickSearch ==
    /\ pc = "idle"
    /\ button' = TRUE
    /\ papers' = <<>>
    /\ idx' = 0
    /\ col' = 0
    /\ trace' = <<>>
    /\ IF CredentialMissing(api_key)
       THEN pc' = "idle" /\ screen' = "instruction"
       ELSE pc' = "search" /\ screen' = "fetching"
    /\ UNCHANGED <<api_key, query, max_results>>
    /\ UNCHANGED <<now, ticks, corpus, cache, opened, last, genLog>>

\* papers = fetcher.search_papers(query, max_results), on a fresh fetcher.
MainSearch(f, k) ==
    /\ pc = "search"
    /\ LET c == search_papers(f, query, max_results, k)
       IN  /\ cache' = c.cache
           /\ trace' = Append(trace, [op |-> "search", query |-> query,
                                      limit |-> max_results, ret |-> c.out.ret])
           /\ papers' = c.out.ret
           /\ IF c.out.raised
              THEN pc' = "idle" /\ screen' = "exception" /\ idx' = 0 /\ col' = 0
              ELSE IF c.out.ret = <<>>
              THEN pc' = "idle" /\ screen' = "not found" /\ idx' = 0 /\ col' = 0
              ELSE pc' = "review" /\ screen' = "analyzing" /\ idx' = 1 /\ col' = 1
    /\ UNCHANGED <<api_key, query, max_results, button>>
    /\ UNCHANGED <<now, ticks, corpus, opened, last, genLog>>

\* processor.generate_review(paper['summary'], persona) for the next column.
MainReview(outcome) ==
    /\ pc = "review"
    /\ LET r == generate_review(papers[idx].summary, ReviewPersonas[col], outcome)
       IN  /\ trace' = Append(trace, [op |-> "review", paper |-> idx,
                                      persona |-> r.persona, text |-> r.text,
                                      temperature |-> r.temperature])
           /\ IF r.raised
              THEN pc' = "idle" /\ screen' = "exception" /\ UNCHANGED <<idx, col>>
              ELSE IF col < Len(ReviewPersonas)
              THEN col' = col + 1 /\ UNCHANGED <<idx, pc, screen>>
              ELSE IF idx < Len(papers)
              THEN idx' = idx + 1 /\ col' = 1 /\ UNCHANGED <<pc, screen>>
              ELSE pc' = "idle" /\ screen' = "rendered" /\ UNCHANGED <<idx, col>>
    /\ UNCHANGED <<api_key, query, max_results, button, papers>>
    /\ UNCHANGED <<now, ticks, corpus, cache, opened, last, genLog>>

---------------------------------------------------------------------------
(* Specifications *)

\* The memo table under repeated calls and passing time.
NextSearch ==
    \/ Advance
    \/ \E f \in Fetchers, lim \in Limits, k \in Faults :
          SearchCall(f, DefaultQuery, lim, k)

Spec == Init /\ [][NextSearch]_vars

\* One search against any index the provider may hold.
InitFetch ==
    /\ corpus \in Corpora
    /\ now = StartTime
    /\ ticks = 0
    /\ cache = <<>>
    /\ opened = <<>>
    /\ last = NoCall
    /\ genLog = <<>>
    /\ api_key = ""
    /\ query = DefaultQuery
    /\ max_results = MaxLimit
    /\ button = FALSE
    /\ pc = "idle"
    /\ papers = <<>>
    /\ idx = 0
    /\ col = 0
    /\ screen = "instruction"
    /\ trace = <<>>

NextFetch ==
    \E f \in Fetchers, q \in Queries, lim \in Limits, k \in Faults :
        FirstSearch(f, q, lim, k)

SpecFetch == InitFetch /\ [][NextFetch]_vars

\* Direct calls of generate_review.
NextReview ==
    \E text \in Texts, persona \in Personas \cup {"reviewer"}, outcome \in GenOutcomes :
        GenerateCall(text, persona, outcome)

SpecReview == Init /\ [][NextReview]_vars

\* The page under user actions.
NextMain ==
    \/ \E k \in Credentials : SetCredential(k)
    \/ \E q \in Queries : SetKeyword(q)
    \/ \E n \in Limits : SetMaxPapers(n)
    \/ ClickSearch
    \/ \E f \in Fetchers, k \in Faults : MainSearch(f, k)
    \/ \E outcome \in GenOutcomes : MainReview(outcome)

SpecMain == Init /\ [][NextMain]_vars

---------------------------------------------------------------------------
(* Properties *)

Pair(c) == <<c.query, c.limit>>

\* A fetch for the pair was made less than TTL seconds ago.
WindowOpen(pair) == pair \in DOMAIN opened /\ now < opened[pair].at + TTL

NonIncreasing(seq) ==
    \A i \in 1..(Len(seq) - 1) : seq[i].published >= seq[i + 1].published

StartsWith(str, prefix) ==
    Len(str) >= Len(prefix) /\ SubSeq(str, 1, Len(prefix)) = prefix

\* C1: a call of search_papers made for a (query, limit) pair while the
\* one-hour window opened by an earlier fetch for that pair is still open
\* issues no provider request and returns the sequence that fetch returned,
\* whichever fetcher makes either call.
C1_MemoHitReturnsSame ==
    [][ (last'.called /\ WindowOpen(Pair(last')))
          => (~last'.requested /\ last'.ret = opened[Pair(last')].ret) ]_vars

C1_Witness ==
    /\ last.called
    /\ ~last.requested
    /\ last.ret # <<>>
    /\ Pair(last) \in DOMAIN opened
    /\ opened[Pair(last)].by # last.fetcher
    /\ last.at > opened[Pair(last)].at

\* C2: while the credential is empty the script is idle, shows the
\* instruction, and its latest run (whatever action started it) called
\* neither the search client nor the review generator.
C2_NoCallsWithoutCredential ==
    api_key = "" => (pc = "idle" /\ trace = <<>> /\ screen = "instruction")

C2_Witness ==
    api_key = "" /\ button /\ screen = "instruction" /\ cache # <<>>

\* C3: a search_papers call during which the provider raised, at the first
\* request or after any number of records, returned the empty sequence and
\* did not raise.
C3_SearchErrorGivesEmpty ==
    (last.called /\ last.failed) => (last.ret = <<>> /\ ~last.raised)

C3_Witness ==
    /\ last.called
    /\ last.failed
    /\ last.yielded = <<>>
    /\ Matching(last.query, corpus) # <<>>

\* C4: a generate_review call whose request raised did not raise itself and
\* returned a non-empty string that starts with the marker
\* "Error generation review: ".
C4_GenerationErrorIsMarked ==
    \A i \in 1..Len(genLog) :
        genLog[i].failed =>
            /\ ~genLog[i].raised
            /\ genLog[i].ret # ""
            /\ StartsWith(genLog[i].ret, "Error generation review: ")

C4_Witness ==
    \E i, j \in 1..Len(genLog) :
        /\ genLog[i].failed /\ genLog[i].persona = "expert"
        /\ genLog[j].failed /\ genLog[j].persona = "beginner"
        /\ genLog[i].ret = "Error generation review: "

\* C5: every request sent to the generative-text provider carries
\* temperature 0.0 for the expert persona and 0.7 for the beginner persona,
\* and no request carries any other persona or temperature.
C5_TemperatureByPersona ==
    \A i \in 1..Len(genLog) :
        genLog[i].requested =>
            \/ genLog[i].persona = "expert" /\ genLog[i].temperature = 0
            \/ genLog[i].persona = "beginner" /\ genLog[i].temperature = 7

C5_Witness ==
    \E i, j \in 1..Len(genLog) :
        /\ genLog[i].requested /\ genLog[i].persona = "expert"
        /\ genLog[j].requested /\ genLog[j].persona = "beginner"

\* C6: a script run started by the search action calls the search client
\* once, first; then for the n records returned, in their order, it calls the
\* review generator as expert and then as beginner on each record's abstract,
\* nothing else in between; the run ends (back to idle) only after all 2n
\* calls, or right after the search when it returned nothing.
ExpectedReview(ret, j) ==
    [op |-> "review", paper |-> j \div 2,
     persona |-> IF j % 2 = 0 THEN "expert" ELSE "beginner",
     text |-> ret[j \div 2].summary,
     temperature |-> IF j % 2 = 0 THEN 0 ELSE 7]

C6_SequentialReviews ==
    trace # <<>> =>
        /\ trace[1].op = "search"
        /\ Len(trace) <= 1 + 2 * Len(trace[1].ret)
        /\ \A j \in 2..Len(trace) : trace[j] = ExpectedReview(trace[1].ret, j)
        /\ pc = "idle" => Len(trace) = 1 + 2 * Len(trace[1].ret)
        /\ pc # "idle" => pc = "review"

C6_Witness ==
    /\ pc = "idle"
    /\ screen = "rendered"
    /\ Len(trace) = 5
    /\ trace[4].paper = 2 /\ trace[4].persona = "expert"
    /\ trace[5].paper = 2 /\ trace[5].persona = "beginner"

\* C7: the sequence a search_papers call returns is non-increasing in the
\* published day of its records.
C7_NewestFirst ==
    last.called => NonIncreasing(last.ret)

C7_Witness ==
    /\ last.called
    /\ Len(last.ret) >= 2
    /\ last.ret[1].published > last.ret[2].published
    /\ corpus[1].published < corpus[2].published

\* C8: a call issues a provider request exactly when no fetch for its pair
\* was made during the TTL seconds before it: hits inside the window do not
\* move the expiry, the first call at or after the expiry fetches again, and
\* no other call or passing of time removes an entry earlier.
C8_ExpiryFromCreation ==
    [][ last'.called => (last'.requested <=> ~WindowOpen(Pair(last'))) ]_vars

C8_Witness ==
    /\ last.called
    /\ last.requested
    /\ last.renewed
    /\ last.at = StartTime + TTL
    /\ \E pair \in DOMAIN opened : pair # Pair(last) /\ opened[pair].at < last.at

\* C9: while the window opened by a fetch that failed is open, every call
\* for its pair returns the empty sequence without a provider request, also
\* when the provider would answer that call without error.
C9_FailureIsMemoized ==
    [][ ( /\ last'.called
          /\ WindowOpen(Pair(last'))
          /\ opened[Pair(last')].failed
          /\ SearchCall(last'.fetcher, last'.query, last'.limit, MaxLimit) )
          => (~last'.requested /\ last'.ret = <<>> /\ ~last'.failed) ]_vars

C9_Witness ==
    /\ last.called
    /\ ~last.requested
    /\ last.ret = <<>>
    /\ Pair(last) \in DOMAIN opened
    /\ opened[Pair(last)].failed
    /\ last.at > opened[Pair(last)].at

\* C10: a call during which the provider raised after yielding one or more
\* records returns the empty sequence, and a non-empty return value holds,
\* in order, the record of everything the provider yielded in a fetch that
\* did not fail.
C10_NoPartialResult ==
    last.called =>
        /\ (last.failed /\ Len(last.yielded) >= 1) => last.ret = <<>>
        /\ last.ret # <<>> =>
             /\ ~last.failed
             /\ last.yielded = Ordered(Search(last.query, last.limit))
             /\ last.ret = [i \in 1..Len(last.yielded) |-> Record(last.yielded[i])]

C10_Witness ==
    /\ last.called
    /\ last.failed
    /\ Len(last.yielded) >= 1
    /\ last.ret = <<>>

====
